---- MODULE Spec2Model ----
(***************************************************************************)
(* Model of the evmbench front-end submission page (page.tsx), the upload  *)
(* draft store (upload-store), the GitHub URL input, the collaborators the *)
(* page calls, the markdown report exporter and the agent launcher script. *)
(* Text is modelled as a sequence of tokens: a token is                    *)
(* an atomic run of characters ("http", "s", ":", "/", "github.com", ...). *)
(* A nullable value is None (the empty tuple) or Some(x) (a 1-tuple).      *)
(***************************************************************************)
EXTENDS Integers, Sequences, FiniteSets, TLC

VARIABLES draft, openaiKey, model, isSubmitting, submitError, recentJobs,
          auth, calls, launcher, report

vars == <<draft, openaiKey, model, isSubmitting, submitError, recentJobs,
          auth, calls, launcher, report>>

\* the launcher process and the report exporter, which the page never touches
toolVars == <<launcher, report>>

pageVars == <<openaiKey, model, isSubmitting, submitError, recentJobs,
              auth, calls>>

\* ------------------------------------------------------------------ bounds
MaxUrl == 2
MaxSel == 1
MaxJobId == 2
MaxCalls == 2
MaxPad == 2
MaxMissing == 1
MaxTimeouts == 8
MaxVulns == 2
MaxSeverities == 3

\* --------------------------------------------------------------- nullables
None == <<>>
Some(x) == <<x>>
Min(a, b) == IF a < b THEN a ELSE b

\* -------------------------------------------------------------------- text
Whitespace == {" ", "\n"}
LineTerminators == {"\n"}

RECURSIVE TrimStart(_)
TrimStart(s) ==
  IF s # <<>> /\ Head(s) \in Whitespace THEN TrimStart(Tail(s)) ELSE s

RECURSIVE TrimEnd(_)
TrimEnd(s) ==
  IF s # <<>> /\ s[Len(s)] \in Whitespace
    THEN TrimEnd(SubSeq(s, 1, Len(s) - 1)) ELSE s

\* String.prototype.trim
Trim(s) == TrimEnd(TrimStart(s))

\* the literal lit occurs in s at position i
HasAt(s, i, lit) ==
  /\ i >= 1
  /\ i + Len(lit) - 1 <= Len(s)
  /\ \A k \in 1..Len(lit) : s[i + k - 1] = lit[k]

\* [^/]+ is greedy and cannot cross a "/": the index after the maximal run
RECURSIVE RunEnd(_, _)
RunEnd(s, i) ==
  IF i <= Len(s) /\ s[i] # "/" THEN RunEnd(s, i + 1) ELSE i

\* /^https?:\/\/github\.com\/[^/]+\/[^/]+(\/tree\/[^/]+(\/.*)?)?$/ .test(s)
GITHUB_URL_PATTERN(s) ==
  /\ HasAt(s, 1, <<"http">>)
  /\ LET a == IF HasAt(s, 2, <<"s">>) THEN 3 ELSE 2
         b == a + 5
         c == RunEnd(s, b)
         d == RunEnd(s, c + 1)
         e == d + 3
         f == RunEnd(s, e)
     IN  /\ HasAt(s, a, <<":", "/", "/", "github.com", "/">>)
         /\ c > b
         /\ HasAt(s, c, <<"/">>)
         /\ d > c + 1
         /\ \/ d = Len(s) + 1
            \/ /\ HasAt(s, d, <<"/", "tree", "/">>)
               /\ f > e
               /\ \/ f = Len(s) + 1
                  \/ /\ HasAt(s, f, <<"/">>)
                     /\ \A k \in (f + 1)..Len(s) : s[k] \notin LineTerminators

\* githubUrl.match(/github\.com\/[^/]+\/([^/]+)/): the positions where the
\* pattern matches; the leftmost one is the match
RepoMatchAt(s, i) ==
  /\ HasAt(s, i, <<"github.com", "/">>)
  /\ LET c == RunEnd(s, i + 2)
     IN  c > i + 2 /\ HasAt(s, c, <<"/">>) /\ RunEnd(s, c + 1) > c + 1

RepoGroup(s, i) ==
  LET c == RunEnd(s, i + 2) IN SubSeq(s, c + 1, RunEnd(s, c + 1) - 1)

\* .replace(/\.git$/, "")
StripDotGit(s) ==
  IF s # <<>> /\ s[Len(s)] = ".git" THEN SubSeq(s, 1, Len(s) - 1) ELSE s

\* ----------------------------------------------------------- input samples
HttpsRepo == <<"http", "s", ":", "/", "/", "github.com", "/", "acme", "/", "vault">>

UrlSamples ==
  << <<" ">> \o HttpsRepo \o <<" ">>,
     <<"ftp", ":", "/", "/", "github.com", "/", "a", "/", "b">>,
     <<" ">>,
     HttpsRepo \o <<".git">>,
     HttpsRepo \o <<"/", "tree", "/", "main", "/", "src">>,
     <<"http", ":", "/", "/", "github.com", "/", "acme">>,
     HttpsRepo \o <<"/">>,
     HttpsRepo \o <<"/", "tree", "/", "main", "/", "a", "\n", "b">> >>

Urls == {<<>>} \cup {UrlSamples[i] : i \in 1..Min(MaxUrl, Len(UrlSamples))}

F1 == [root |-> "vault", name |-> "Token.sol"]
F2 == [root |-> "lib", name |-> "Math.sol"]

SelSamples == << <<F1>>, <<>>, <<F2, F1>>, <<F1, F2>> >>

Selections == {SelSamples[i] : i \in 1..Min(MaxSel, Len(SelSamples))}

\* the credential texts the user types: nothing, or a key with blanks around
Keys == {<<>>, <<" ", "sk-1", " ">>}

Models == {"claude-opus-4-5", "gpt-5.2"}
DefaultModel == "claude-opus-4-5"

JobIds == 1..MaxJobId
\* the reading of Date.now(): it is stored in the record and never read
Times == {1}

\* what a rejected promise carries: an Error with a message, or a non-Error
Errors == {[isError |-> TRUE, message |-> <<"backend", " ", "rejected">>],
           [isError |-> FALSE, message |-> <<>>]}

\* ------------------------------------------------------------ upload store
InitialDraft ==
  [mode |-> "files", files |-> None, packageName |-> None,
   githubUrl |-> <<>>, fromGitHub |-> FALSE]

\* setMode written as a reset of the draft followed by the new mode
setModeResetting(d, mode) ==
  [mode |-> mode, files |-> None, packageName |-> None, githubUrl |-> <<>>,
   fromGitHub |-> FALSE]

setMode(d, mode) == [d EXCEPT !.mode = mode]

setUpload(d, files, packageName) ==
  [d EXCEPT !.files = files, !.packageName = packageName]

setGitHubUrl(d, githubUrl) == [d EXCEPT !.githubUrl = githubUrl]

setFromGitHub(d, fromGitHub) == [d EXCEPT !.fromGitHub = fromGitHub]

\* clearUpload that forgets the URL field
clearUploadKeepingUrl(d) ==
  [d EXCEPT !.files = None, !.packageName = None, !.fromGitHub = FALSE]

clearUpload(d) ==
  [d EXCEPT !.files = None, !.packageName = None, !.githubUrl = <<>>,
            !.fromGitHub = FALSE]

\* ----------------------------------------------------------- collaborators
\* lib/upload-utils: a label for a selection, absent for the empty selection
inferPackageName(files) ==
  IF files = <<>> THEN None ELSE Some(<<Head(files).root>>)

\* lib/zip: the archive keeps every file of the selection under the name
createZipFromFiles(files, name) == [name |-> name, files |-> files]

\* lib/jobs: one request per call; an empty credential text is not sent
Credential(key) == IF key = <<>> THEN None ELSE Some(key)

startJob(zipFile, modelId, key) ==
  [kind |-> "files", url |-> <<>>, archive |-> Some(zipFile),
   model |-> modelId, credential |-> Credential(key)]

startJobFromGitHub(url, modelId, key) ==
  [kind |-> "github", url |-> url, archive |-> None,
   model |-> modelId, credential |-> Credential(key)]

\* lib/recent-jobs: unique by job_id, most recent first, capped
HistoryCap == 2

addRecentJob(h, rec) ==
  LET rest == SelectSeq(h, LAMBDA r : r.job_id # rec.job_id)
      full == <<rec>> \o rest
  IN  SubSeq(full, 1, Min(Len(full), HistoryCap))

removeRecentJob(h, id) == SelectSeq(h, LAMBDA r : r.job_id # id)

\* hooks/use-auth: both lookups are loading when the page is loaded
AuthLoading ==
  [isAuthorized |-> FALSE, isLoading |-> TRUE, isConfigLoading |-> TRUE,
   keyPredefined |-> FALSE]

\* ------------------------------------------------- values the page derives
fileCount == IF draft.files = None THEN 0 ELSE Len(draft.files[1])

selectedLabel ==
  IF draft.mode = "github" /\ Trim(draft.githubUrl) # <<>>
    THEN LET u == draft.githubUrl
             at == {i \in 1..Len(u) : RepoMatchAt(u, i)}
         IN  IF at # {}
               THEN Some(StripDotGit(RepoGroup(u,
                      CHOOSE i \in at : \A k \in at : i <= k)))
               ELSE Some(<<"github-repo">>)
  ELSE IF draft.packageName # None /\ draft.packageName # Some(<<>>)
    THEN draft.packageName
  ELSE IF draft.files # None THEN inferPackageName(draft.files[1])
  ELSE None

\* validity tested with the unanchored pattern of the label
isValidGitHubUrlAnyScheme ==
  \E i \in 1..Len(Trim(draft.githubUrl)) : RepoMatchAt(Trim(draft.githubUrl), i)

\* validity tested on the text as typed
isValidGitHubUrlUntrimmed == GITHUB_URL_PATTERN(draft.githubUrl)

isValidGitHubUrl == GITHUB_URL_PATTERN(Trim(draft.githubUrl))

\* canSubmit without the busy flag
canSubmitIgnoringBusy ==
  IF auth.isLoading \/ ~auth.isAuthorized THEN FALSE
  ELSE IF draft.mode = "files" THEN draft.files # None /\ fileCount > 0
  ELSE isValidGitHubUrl

canSubmit ==
  IF isSubmitting \/ auth.isLoading \/ ~auth.isAuthorized THEN FALSE
  ELSE IF draft.mode = "files" THEN draft.files # None /\ fileCount > 0
  ELSE isValidGitHubUrl

\* the inline indicator of the URL input: null, true or false
GitHubUrlInput_isValid(value) ==
  IF Trim(value) = <<>> THEN None ELSE Some(GITHUB_URL_PATTERN(Trim(value)))

GitHubUrlInput_hasValue(value) == Len(Trim(value)) > 0

DisplayCount == 6

\* ------------------------------------------------------ pending invocations
\* A call is one invocation of handleSubmit that is suspended at an await.
\* It holds what the closure captured when the button was clicked.
Settled(c) == c.stage \in {"resolved", "thrown"}

\* a settled promise runs its continuation before any other event is handled
Quiescent == \A i \in 1..Len(calls) : ~Settled(calls[i])

RemoveAt(s, i) == SubSeq(s, 1, i - 1) \o SubSeq(s, i + 1, Len(s))

NoError == [isError |-> FALSE, message |-> <<>>]

\* ------------------------------------------------------------------- state
\* The variables the launcher documents as its expected environment.
ExpectedEnv ==
  {"AGENT_DIR", "SUBMISSION_DIR", "LOGS_DIR", "PI_API_KEY", "PI_MODEL",
   "PI_BASE_URL", "EVM_BENCH_DETECT_MD"}

\* the required-variable checks with the check of PI_MODEL left out
RequiredEnvWithoutModel ==
  <<"AGENT_DIR", "SUBMISSION_DIR", "LOGS_DIR", "PI_API_KEY",
    "PI_BASE_URL", "EVM_BENCH_DETECT_MD">>

\* The variables the launcher checks with ${VAR:?...}, in the order checked.
RequiredEnv ==
  <<"AGENT_DIR", "SUBMISSION_DIR", "LOGS_DIR", "PI_API_KEY", "PI_MODEL",
    "PI_BASE_URL", "EVM_BENCH_DETECT_MD">>

\* A variable of the environment is unset, set to the empty text, or set.
EnvStates == {"unset", "empty", "set"}

Defective(e) == {v \in ExpectedEnv : e[v] # "set"}

Environments ==
  {e \in [ExpectedEnv -> EnvStates] : Cardinality(Defective(e)) <= MaxMissing}

CompleteEnv == [v \in ExpectedEnv |-> "set"]

\* Values of EVM_BENCH_PI_TIMEOUT_SECONDS, one token per character: None is
\* unset, Some(<<>>) is set to the empty text.
Digits == {"0", "1", "2", "3", "4", "5", "6", "7", "8", "9"}

TimeoutTexts ==
  <<<<>>, <<"0">>, <<"5">>, <<"3", "0">>, <<"-", "5">>, <<"1", ".", "5">>,
    <<"a", "b", "c">>, <<" ", "5">>, <<"5", "\n">>>>

TimeoutSettings ==
  {None} \cup {Some(TimeoutTexts[i]) : i \in 1..Min(MaxTimeouts, Len(TimeoutTexts))}

\* the test with the pattern left unanchored
IsDigitsUnanchored(t) == \E k \in 1..Len(t) : t[k] \in Digits

\* [[ text =~ ^[0-9]+$ ]]
IsDigits(t) == Len(t) > 0 /\ \A k \in 1..Len(t) : t[k] \in Digits

DigitValue(c) == CHOOSE n \in 0..9 : ToString(n) = c

RECURSIVE DigitsValue(_)
DigitsValue(t) ==
  IF t = <<>> THEN 0
  ELSE 10 * DigitsValue(SubSeq(t, 1, Len(t) - 1)) + DigitValue(t[Len(t)])

DefaultTimeout == <<"1", "0", "8", "0", "0">>

\* ${VAR:-default}: the default stands in when VAR is unset or empty
TimeoutOrDefault(setting) ==
  IF setting = None \/ setting = Some(<<>>) THEN DefaultTimeout ELSE setting[1]

\* A report artifact is missing, empty, non-empty from an earlier run
\* ("stale") or non-empty and written by this run's agent ("fresh").
ArtifactStates == {"missing", "empty", "stale", "fresh"}
NonEmpty(a) == a \in {"stale", "fresh"}

\* What the agent does to an artifact.
AgentWrites == {"nothing", "empty", "fresh"}
Written(a, w) == IF w = "nothing" THEN a ELSE w

\* How the wrapped agent ends.
AgentEndings == {"clean", "error", "killed"}

\* The launcher when it is started: its environment and the files it finds.
LauncherStart(e, t, ins, aj, am) ==
  [pc |-> "env", env |-> e, timeoutVar |-> t, instructions |-> ins,
   prior |-> [auditJson |-> aj, auditMd |-> am],
   auditJson |-> aj, auditMd |-> am,
   dirs |-> FALSE, agentsMd |-> FALSE, modelsJson |-> FALSE,
   timeoutSeconds |-> <<>>, agent |-> "notrun",
   status |-> None, stderr |-> <<>>]

LauncherStarts ==
  {LauncherStart(e, t, ins, aj, am) :
     e \in Environments, t \in TimeoutSettings, ins \in BOOLEAN,
     aj \in {"missing", "empty", "stale"}, am \in {"missing", "stale"}}

LauncherIdle ==
  LauncherStart(CompleteEnv, None, TRUE, "missing", "missing")
\* ------------------------------------------------------ markdown exporter
\* A line of markdown is a sequence of tokens; a document is a sequence of
\* lines (the text joined with "\n").  An absent or empty optional text is "".
LowerCase ==
  <<"a", "b", "c", "d", "e", "f", "g", "h", "i", "j", "k", "l", "m",
    "n", "o", "p", "q", "r", "s", "t", "u", "v", "w", "x", "y", "z">>

UpperCase ==
  <<"A", "B", "C", "D", "E", "F", "G", "H", "I", "J", "K", "L", "M",
    "N", "O", "P", "Q", "R", "S", "T", "U", "V", "W", "X", "Y", "Z">>

UpperChar(c) ==
  IF \E k \in 1..Len(LowerCase) : LowerCase[k] = c
  THEN UpperCase[CHOOSE k \in 1..Len(LowerCase) : LowerCase[k] = c]
  ELSE c

\* String.prototype.toUpperCase on a text of one token per character
toUpperCase(t) == [k \in 1..Len(t) |-> UpperChar(t[k])]

\* The line "**File:** 'file' (lines start-end)"; the quotes around the file
\* are backticks in the code, written ~ here (a TLA+ string holds none).
FileLine(loc) ==
  <<"**File:** ~", loc.file, "~ (lines ", ToString(loc.line_start), "-",
    ToString(loc.line_end), ")">>

RECURSIVE LocationLines(_)
LocationLines(description) ==
  IF description = <<>> THEN <<>>
  ELSE <<<<>>, FileLine(Head(description)), <<>>, <<Head(description).desc>>>>
         \o LocationLines(Tail(description))

\* if (text) { push(heading); push(text); push("") }
OptionalSection(heading, text) ==
  IF text = "" THEN <<>> ELSE <<<<heading>>, <<text>>, <<>>>>

\* the section of one vulnerability with the severity as given
vulnerabilityToMarkdownRawSeverity(vuln) ==
  <<<<"## ", vuln.id, ": ", vuln.title>>, <<>>,
    <<"**Severity:** ">> \o vuln.severity, <<>>>>
    \o OptionalSection("### Summary", vuln.summary)
    \o OptionalSection("### Impact", vuln.impact)
    \o (IF Len(vuln.description) > 0
        THEN <<<<"### Description">>>> \o LocationLines(vuln.description)
               \o <<<<>>>>
        ELSE <<>>)
    \o OptionalSection("### Proof of Concept", vuln.proof_of_concept)
    \o OptionalSection("### Remediation", vuln.remediation)

vulnerabilityToMarkdown(vuln) ==
  <<<<"## ", vuln.id, ": ", vuln.title>>, <<>>,
    <<"**Severity:** ">> \o toUpperCase(vuln.severity), <<>>>>
    \o OptionalSection("### Summary", vuln.summary)
    \o OptionalSection("### Impact", vuln.impact)
    \o (IF Len(vuln.description) > 0
        THEN <<<<"### Description">>>> \o LocationLines(vuln.description)
               \o <<<<>>>>
        ELSE <<>>)
    \o OptionalSection("### Proof of Concept", vuln.proof_of_concept)
    \o OptionalSection("### Remediation", vuln.remediation)

generateVulnerabilityMarkdown(vuln) ==
  <<<<"# Vulnerability Report">>, <<>>>> \o vulnerabilityToMarkdown(vuln)

\* the reducer that forgets the count it has: acc[v.severity] = 1
CountSeverityOnce(acc, v) ==
  IF \E k \in 1..Len(acc) : acc[k].severity = v.severity
  THEN [k \in 1..Len(acc) |->
          IF acc[k].severity = v.severity
          THEN [acc[k] EXCEPT !.count = 1] ELSE acc[k]]
  ELSE Append(acc, [severity |-> v.severity, count |-> 1])

\* acc[v.severity] = (acc[v.severity] || 0) + 1 on an object whose entries
\* keep the order in which their keys were first set (severities are names)
CountSeverity(acc, v) ==
  IF \E k \in 1..Len(acc) : acc[k].severity = v.severity
  THEN [k \in 1..Len(acc) |->
          IF acc[k].severity = v.severity
          THEN [acc[k] EXCEPT !.count = @ + 1] ELSE acc[k]]
  ELSE Append(acc, [severity |-> v.severity, count |-> 1])

RECURSIVE bySeverity(_)
bySeverity(vulnerabilities) ==
  IF vulnerabilities = <<>> THEN <<>>
  ELSE CountSeverity(
         bySeverity(SubSeq(vulnerabilities, 1, Len(vulnerabilities) - 1)),
         vulnerabilities[Len(vulnerabilities)])

SeverityLines(entries) ==
  [k \in 1..Len(entries) |->
     <<"- **">> \o toUpperCase(entries[k].severity)
       \o <<":** ", ToString(entries[k].count)>>]

RECURSIVE VulnerabilitySections(_)
VulnerabilitySections(vulnerabilities) ==
  IF vulnerabilities = <<>> THEN <<>>
  ELSE vulnerabilityToMarkdown(Head(vulnerabilities))
         \o <<<<"---">>, <<>>>>
         \o VulnerabilitySections(Tail(vulnerabilities))

\* jobId is None (not given) or Some(text); the empty text is falsy
generateAllVulnerabilitiesMarkdown(vulnerabilities, jobId) ==
  <<<<"# Security Audit Report">>, <<>>>>
    \o (IF jobId # None /\ jobId[1] # ""
        THEN <<<<"**Job ID:** ", jobId[1]>>, <<>>>> ELSE <<>>)
    \o <<<<"**Total Vulnerabilities:** ", ToString(Len(vulnerabilities))>>,
         <<>>>>
    \o <<<<"### Summary by Severity">>, <<>>>>
    \o SeverityLines(bySeverity(vulnerabilities))
    \o <<<<>>, <<"---">>, <<>>>>
    \o VulnerabilitySections(vulnerabilities)

\* sample vulnerabilities
Loc1 == [file |-> "a.sol", line_start |-> 1, line_end |-> 9, desc |-> "d1"]
Loc2 == [file |-> "b.sol", line_start |-> 12, line_end |-> 12, desc |-> "d2"]

SeveritySamples ==
  <<<<"h", "i", "g", "h">>, <<"H", "i", "g", "h">>, <<"l", "o", "w">>,
    <<"C", "R", "I", "T", "I", "C", "A", "L">>>>

Severities ==
  {SeveritySamples[i] : i \in 1..Min(MaxSeverities, Len(SeveritySamples))}

VulnIds == {"V1", "V2"}

Details ==
  {[summary |-> "", impact |-> "", description |-> <<>>,
    proof_of_concept |-> "", remediation |-> ""],
   [summary |-> "s", impact |-> "", description |-> <<Loc1>>,
    proof_of_concept |-> "", remediation |-> ""],
   [summary |-> "s", impact |-> "i", description |-> <<Loc1, Loc2>>,
    proof_of_concept |-> "p", remediation |-> "r"]}

Vulnerabilities ==
  {[id |-> id, title |-> "T-" \o id, severity |-> sev,
    summary |-> d.summary, impact |-> d.impact,
    description |-> d.description,
    proof_of_concept |-> d.proof_of_concept, remediation |-> d.remediation] :
     id \in VulnIds, sev \in Severities, d \in Details}

VulnLists == UNION {[1..n -> Vulnerabilities] : n \in 0..MaxVulns}

ReportJobIds == {None, Some(""), Some("job-1")}

ReportIdle ==
  [pc |-> "input", vulnerabilities |-> <<>>, jobId |-> None, lines |-> <<>>]

\* the page when it is first loaded in a fresh session
PageInit ==
  /\ draft = InitialDraft
  /\ openaiKey = <<>>
  /\ model = DefaultModel
  /\ isSubmitting = FALSE
  /\ submitError = None
  /\ recentJobs = <<>>
  /\ auth = AuthLoading
  /\ calls = <<>>

Init ==
  /\ PageInit
  /\ launcher = LauncherIdle
  /\ report = ReportIdle

\* ------------------------------------------------------------ user actions
\* <Tabs onValueChange={(v) => setMode(v)}>: the tabs are never disabled
SelectTab(m) ==
  /\ Quiescent
  /\ m # draft.mode
  /\ draft' = setMode(draft, m)
  /\ UNCHANGED <<pageVars, toolVars>>

\* handleFilesSelected: the uploader is shown on the files tab and is
\* disabled while a submission is outstanding
FilesSelected(selected) ==
  /\ Quiescent
  /\ draft.mode = "files"
  /\ ~isSubmitting
  /\ draft' = setUpload(draft, Some(selected), inferPackageName(selected))
  /\ UNCHANGED <<pageVars, toolVars>>

\* onClear={clearUpload} of the uploader
ClearFiles ==
  /\ Quiescent
  /\ draft.mode = "files"
  /\ ~isSubmitting
  /\ draft' = clearUpload(draft)
  /\ UNCHANGED <<pageVars, toolVars>>

\* the URL input left enabled while a submission is outstanding
UrlChangeWhileBusy(u) ==
  /\ Quiescent
  /\ draft.mode = "github"
  /\ u # draft.githubUrl
  /\ draft' = setGitHubUrl(draft, u)
  /\ UNCHANGED <<pageVars, toolVars>>

\* GitHubUrlInput.handleChange
UrlChange(u) ==
  /\ Quiescent
  /\ draft.mode = "github"
  /\ ~isSubmitting
  /\ u # draft.githubUrl
  /\ draft' = setGitHubUrl(draft, u)
  /\ UNCHANGED <<pageVars, toolVars>>

\* GitHubUrlInput.handleClear: the button exists when the input has a value
UrlClear ==
  /\ Quiescent
  /\ draft.mode = "github"
  /\ ~isSubmitting
  /\ GitHubUrlInput_hasValue(draft.githubUrl)
  /\ draft' = setGitHubUrl(draft, <<>>)
  /\ UNCHANGED <<pageVars, toolVars>>

\* handleKeyChange: the key input is rendered only when the configuration
\* is loaded and no key is predefined
KeyChange(k) ==
  /\ Quiescent
  /\ ~auth.isConfigLoading
  /\ ~auth.keyPredefined
  /\ k # openaiKey
  /\ openaiKey' = k
  /\ UNCHANGED <<toolVars, draft, model, isSubmitting, submitError, recentJobs, auth,
                 calls>>

\* <Select value={model} onValueChange={setModel}>
ModelChange(m) ==
  /\ Quiescent
  /\ m # model
  /\ model' = m
  /\ UNCHANGED <<toolVars, draft, openaiKey, isSubmitting, submitError, recentJobs,
                 auth, calls>>

\* what handleSubmit captures and starts once its guards have passed
NewCall ==
  LET name == IF selectedLabel = None THEN <<"files">> ELSE selectedLabel[1]
      trimmedKey == Trim(openaiKey)
  IN  [mode |-> draft.mode, name |-> name, files |-> draft.files,
       githubUrl |-> draft.githubUrl, model |-> model,
       trimmedKey |-> trimmedKey,
       stage |-> IF draft.mode = "github" THEN "sent" ELSE "zipping",
       req |-> IF draft.mode = "github"
                 THEN Some(startJobFromGitHub(Trim(draft.githubUrl), model,
                                              trimmedKey))
                 ELSE None,
       job_id |-> 0, error |-> NoError]

\* handleSubmit up to its first await
handleSubmit ==
  IF ~auth.isAuthorized
    THEN /\ submitError' = Some(<<"Authorize with GitHub to start analysis.">>)
         /\ UNCHANGED <<toolVars, draft, openaiKey, model, isSubmitting, recentJobs,
                        auth, calls>>
  ELSE IF draft.mode = "files" /\ (draft.files = None \/ fileCount = 0)
    THEN UNCHANGED vars
  ELSE IF draft.mode = "github" /\ ~isValidGitHubUrl
    THEN UNCHANGED vars
  ELSE /\ isSubmitting' = TRUE
       /\ submitError' = None
       /\ calls' = Append(calls, NewCall)
       /\ UNCHANGED <<toolVars, draft, openaiKey, model, recentJobs, auth>>

\* <Button onClick={handleSubmit} disabled={!canSubmit}>
ClickSubmit ==
  /\ Quiescent
  /\ canSubmit
  /\ Len(calls) < MaxCalls
  /\ handleSubmit

\* setRecentJobs(removeRecentJob(job.job_id)) on a displayed row
RemoveRecent(i) ==
  /\ Quiescent
  /\ i \in 1..Min(Len(recentJobs), DisplayCount)
  /\ recentJobs' = removeRecentJob(recentJobs, recentJobs[i].job_id)
  /\ UNCHANGED <<toolVars, draft, openaiKey, model, isSubmitting, submitError, auth,
                 calls>>

\* setRecentJobs([])
ClearRecent ==
  /\ Quiescent
  /\ Len(recentJobs) > 0
  /\ recentJobs' = <<>>
  /\ UNCHANGED <<toolVars, draft, openaiKey, model, isSubmitting, submitError, auth,
                 calls>>

\* ------------------------------------------------ promises of a pending call
\* await createZipFromFiles(files!, name) resolves; startJob is called
ZipResolve(i) ==
  /\ Quiescent
  /\ i \in 1..Len(calls)
  /\ calls[i].stage = "zipping"
  /\ LET c == calls[i]
         zipFile == createZipFromFiles(c.files[1], c.name)
     IN  calls' = [calls EXCEPT ![i].stage = "sent",
                     ![i].req = Some(startJob(zipFile, c.model, c.trimmedKey))]
  /\ UNCHANGED <<toolVars, draft, openaiKey, model, isSubmitting, submitError,
                 recentJobs, auth>>

\* await createZipFromFiles(files!, name) rejects
ZipReject(i, e) ==
  /\ Quiescent
  /\ i \in 1..Len(calls)
  /\ calls[i].stage = "zipping"
  /\ calls' = [calls EXCEPT ![i].stage = "thrown", ![i].error = e]
  /\ UNCHANGED <<toolVars, draft, openaiKey, model, isSubmitting, submitError,
                 recentJobs, auth>>

\* the backend answers the request with a job id
NetResolve(i, j) ==
  /\ Quiescent
  /\ i \in 1..Len(calls)
  /\ calls[i].stage = "sent"
  /\ calls' = [calls EXCEPT ![i].stage = "resolved", ![i].job_id = j]
  /\ UNCHANGED <<toolVars, draft, openaiKey, model, isSubmitting, submitError,
                 recentJobs, auth>>

\* the request fails: network failure or backend rejection
NetReject(i, e) ==
  /\ Quiescent
  /\ i \in 1..Len(calls)
  /\ calls[i].stage = "sent"
  /\ calls' = [calls EXCEPT ![i].stage = "thrown", ![i].error = e]
  /\ UNCHANGED <<toolVars, draft, openaiKey, model, isSubmitting, submitError,
                 recentJobs, auth>>

\* the record built from the mode of the draft at the time of the response
RecentJobOfLiveMode(c, now) ==
  [job_id |-> c.job_id, label |-> c.name, created_at_ms |-> now,
   source |-> draft.mode]

\* the record handleSubmit persists for a confirmed job
RecentJobOf(c, now) ==
  [job_id |-> c.job_id, label |-> c.name, created_at_ms |-> now,
   source |-> c.mode]

\* the draft cleared after the awaited call returned
DraftClearedAfterResponse(d, c) == clearUpload(d)

\* the draft after the awaited call returned: setFromGitHub(true / false)
DraftAfterResponse(d, c) == setFromGitHub(d, c.mode = "github")

\* the record prepended to the list the page holds
HistoryPrepended(h, rec) == <<rec>> \o h

\* the history handleSubmit stores: setRecentJobs(addRecentJob(record))
HistoryAfterResponse(h, rec) == addRecentJob(h, rec)

\* handleSubmit after the awaited call returned, and its finally block
ResumeOk(i, now) ==
  /\ i \in 1..Len(calls)
  /\ calls[i].stage = "resolved"
  /\ draft' = DraftAfterResponse(draft, calls[i])
  /\ recentJobs' = HistoryAfterResponse(recentJobs, RecentJobOf(calls[i], now))
  /\ isSubmitting' = FALSE
  /\ calls' = RemoveAt(calls, i)
  /\ UNCHANGED <<toolVars, openaiKey, model, submitError, auth>>

\* error instanceof Error ? error.message : "Upload failed"
ErrorMessage(e) == IF e.isError THEN e.message ELSE <<"Upload failed">>

\* the record persisted in the finally block instead of the try block
ResumeCatchPersists(i) ==
  /\ i \in 1..Len(calls)
  /\ calls[i].stage = "thrown"
  /\ submitError' = Some(ErrorMessage(calls[i].error))
  /\ recentJobs' = addRecentJob(recentJobs, RecentJobOf(calls[i], 1))
  /\ isSubmitting' = FALSE
  /\ calls' = RemoveAt(calls, i)
  /\ UNCHANGED <<toolVars, draft, openaiKey, model, auth>>

\* the draft cleared in the finally block
ResumeCatchClears(i) ==
  /\ i \in 1..Len(calls)
  /\ calls[i].stage = "thrown"
  /\ submitError' = Some(ErrorMessage(calls[i].error))
  /\ isSubmitting' = FALSE
  /\ draft' = clearUpload(draft)
  /\ calls' = RemoveAt(calls, i)
  /\ UNCHANGED <<toolVars, openaiKey, model, recentJobs, auth>>

\* the busy flag cleared at the end of the try block instead of in finally
ResumeCatchNoFinally(i) ==
  /\ i \in 1..Len(calls)
  /\ calls[i].stage = "thrown"
  /\ submitError' = Some(ErrorMessage(calls[i].error))
  /\ calls' = RemoveAt(calls, i)
  /\ UNCHANGED <<toolVars, draft, openaiKey, model, isSubmitting, recentJobs,
                 auth>>

\* the catch and finally blocks of handleSubmit
ResumeCatch(i) ==
  /\ i \in 1..Len(calls)
  /\ calls[i].stage = "thrown"
  /\ submitError' = Some(ErrorMessage(calls[i].error))
  /\ isSubmitting' = FALSE
  /\ calls' = RemoveAt(calls, i)
  /\ UNCHANGED <<toolVars, draft, openaiKey, model, recentJobs, auth>>

\* ------------------------------------------------------------- environment
\* the authorization lookup finishes
AuthResolved(b) ==
  /\ Quiescent
  /\ auth.isLoading
  /\ auth' = [auth EXCEPT !.isLoading = FALSE, !.isAuthorized = b]
  /\ UNCHANGED <<toolVars, draft, openaiKey, model, isSubmitting, submitError,
                 recentJobs, calls>>

\* the configuration lookup finishes
ConfigResolved(k) ==
  /\ Quiescent
  /\ auth.isConfigLoading
  /\ auth' = [auth EXCEPT !.isConfigLoading = FALSE, !.keyPredefined = k]
  /\ UNCHANGED <<toolVars, draft, openaiKey, model, isSubmitting, submitError,
                 recentJobs, calls>>

\* the page is loaded again: memory is lost, the two storage slots are kept
Reload ==
  /\ Quiescent
  /\ draft' = InitialDraft
  /\ model' = DefaultModel
  /\ isSubmitting' = FALSE
  /\ submitError' = None
  /\ auth' = AuthLoading
  /\ calls' = <<>>
  /\ UNCHANGED <<toolVars, openaiKey, recentJobs>>

Next ==
  \/ \E m \in {"files", "github"} : SelectTab(m)
  \/ \E sel \in Selections : FilesSelected(sel)
  \/ ClearFiles
  \/ \E u \in Urls : UrlChange(u)
  \/ UrlClear
  \/ \E k \in Keys : KeyChange(k)
  \/ \E m \in Models : ModelChange(m)
  \/ ClickSubmit
  \/ \E i \in 1..MaxCalls : RemoveRecent(i)
  \/ ClearRecent
  \/ \E i \in 1..MaxCalls : ZipResolve(i)
  \/ \E i \in 1..MaxCalls, e \in Errors : ZipReject(i, e)
  \/ \E i \in 1..MaxCalls, j \in JobIds : NetResolve(i, j)
  \/ \E i \in 1..MaxCalls, e \in Errors : NetReject(i, e)
  \/ \E i \in 1..MaxCalls, now \in Times : ResumeOk(i, now)
  \/ \E i \in 1..MaxCalls : ResumeCatch(i)
  \/ \E b \in BOOLEAN : AuthResolved(b)
  \/ \E k \in BOOLEAN : ConfigResolved(k)
  \/ Reload

Spec == Init /\ [][Next]_vars

\* ------------------------------------------------- the upload store alone
\* The store is a module of its own: any caller may apply its operations in
\* any order.
StoreLabels == {None, Some(<<"vault">>), Some(<<"lib">>)}
StoreFiles == {None, Some(<<>>)} \cup {Some(sel) : sel \in Selections}

Store_setMode(m) ==
  /\ draft' = setMode(draft, m)
  /\ UNCHANGED <<pageVars, toolVars>>

Store_setUpload(f, p) ==
  /\ draft' = setUpload(draft, f, p)
  /\ UNCHANGED <<pageVars, toolVars>>

Store_setGitHubUrl(u) ==
  /\ draft' = setGitHubUrl(draft, u)
  /\ UNCHANGED <<pageVars, toolVars>>

Store_setFromGitHub(b) ==
  /\ draft' = setFromGitHub(draft, b)
  /\ UNCHANGED <<pageVars, toolVars>>

Store_clearUpload ==
  /\ draft' = clearUpload(draft)
  /\ UNCHANGED <<pageVars, toolVars>>

StoreNext ==
  \/ \E m \in {"files", "github"} : Store_setMode(m)
  \/ \E f \in StoreFiles, p \in StoreLabels : Store_setUpload(f, p)
  \/ \E u \in Urls : Store_setGitHubUrl(u)
  \/ \E b \in BOOLEAN : Store_setFromGitHub(b)
  \/ Store_clearUpload

StoreSpec == Init /\ [][StoreNext]_vars

\* --------------------------------------------------- the URL input alone
\* Every sample text is typed into the URL input of the page and blanks and
\* line breaks are typed before and after it.
AllUrls == {<<>>} \cup {UrlSamples[i] : i \in 1..Len(UrlSamples)}

LeadingBlanks(s) == Len(s) - Len(TrimStart(s))
TrailingBlanks(s) == Len(s) - Len(TrimEnd(s))

TypeUrl(u) == UrlChange(u)

PadLeft(w) ==
  /\ LeadingBlanks(draft.githubUrl) < MaxPad
  /\ UrlChange(<<w>> \o draft.githubUrl)

PadRight(w) ==
  /\ TrailingBlanks(draft.githubUrl) < MaxPad
  /\ UrlChange(draft.githubUrl \o <<w>>)

UrlNext ==
  \/ \E m \in {"files", "github"} : SelectTab(m)
  \/ \E u \in AllUrls : TypeUrl(u)
  \/ \E w \in Whitespace : PadLeft(w)
  \/ \E w \in Whitespace : PadRight(w)
  \/ UrlClear

UrlSpec == Init /\ [][UrlNext]_vars

\* ------------------------------------------------- the agent launcher alone
nonLauncher == <<draft, pageVars, report>>

Exit(l, code, message) ==
  [l EXCEPT !.pc = "exited", !.status = Some(code), !.stderr = message]

\* : "${VAR:?missing VAR}" for each required variable, in order
CheckRequiredEnv ==
  /\ launcher.pc = "env"
  /\ LET bad == {i \in 1..Len(RequiredEnv) :
                   launcher.env[RequiredEnv[i]] # "set"}
     IN  IF bad # {}
         THEN LET first == CHOOSE i \in bad : \A k \in bad : i <= k
              IN  launcher' = Exit(launcher, 1,
                                   <<RequiredEnv[first], ":", "missing",
                                     RequiredEnv[first]>>)
         ELSE launcher' = [launcher EXCEPT !.pc = "mkdir"]
  /\ UNCHANGED nonLauncher

\* mkdir -p "${SUBMISSION_DIR}" "${LOGS_DIR}"
MakeDirs ==
  /\ launcher.pc = "mkdir"
  /\ launcher' = [launcher EXCEPT !.dirs = TRUE, !.pc = "timeout"]
  /\ UNCHANGED nonLauncher

\* TIMEOUT_SECONDS="${EVM_BENCH_PI_TIMEOUT_SECONDS:-10800}" and its test
ValidateTimeout ==
  /\ launcher.pc = "timeout"
  /\ LET t == TimeoutOrDefault(launcher.timeoutVar)
         l == [launcher EXCEPT !.timeoutSeconds = t]
     IN  IF ~IsDigits(t)
         THEN launcher' =
                Exit(l, 2, <<"invalid EVM_BENCH_PI_TIMEOUT_SECONDS=">> \o t)
         ELSE launcher' = [l EXCEPT !.pc = "render"]
  /\ UNCHANGED nonLauncher

\* cp "${EVM_BENCH_DETECT_MD}" "${AGENT_DIR}/AGENTS.md"; a failing cp ends
\* the script (set -e)
RenderInstructions ==
  /\ launcher.pc = "render"
  /\ IF launcher.instructions
     THEN launcher' = [launcher EXCEPT !.agentsMd = TRUE, !.pc = "clean"]
     ELSE launcher' = Exit(launcher, 1, <<"cp:", "cannot stat">>)
  /\ UNCHANGED nonLauncher

\* the launcher with the removal of earlier output left out
CleanOutputSkipped ==
  /\ launcher.pc = "clean"
  /\ launcher' = [launcher EXCEPT !.pc = "configure"]
  /\ UNCHANGED nonLauncher

\* rm -f "${SUBMISSION_DIR}/audit.json" "${SUBMISSION_DIR}/audit.md"
CleanOutput ==
  /\ launcher.pc = "clean"
  /\ launcher' = [launcher EXCEPT !.auditJson = "missing",
                                  !.auditMd = "missing",
                                  !.pc = "configure"]
  /\ UNCHANGED nonLauncher

\* mkdir -p "${PI_CONFIG_DIR}"; cat > "${PI_CONFIG_DIR}/models.json"
ConfigurePi ==
  /\ launcher.pc = "configure"
  /\ launcher' = [launcher EXCEPT !.modelsJson = TRUE, !.pc = "run"]
  /\ UNCHANGED nonLauncher

\* timeout kills the agent only when the duration is not zero
CanEnd(l, ending) ==
  ending = "killed" => DigitsValue(l.timeoutSeconds) > 0

AfterAgent(l, ending, wj, wm) ==
  [l EXCEPT !.agent = ending,
            !.auditJson = Written(l.auditJson, wj),
            !.auditMd = Written(l.auditMd, wm)]

\* the agent run without "|| true": a failing agent ends the script (set -e)
RunPiFatal(ending, wj, wm) ==
  /\ launcher.pc = "run"
  /\ CanEnd(launcher, ending)
  /\ LET l == AfterAgent(launcher, ending, wj, wm)
     IN  launcher' = IF ending = "clean" THEN [l EXCEPT !.pc = "check"]
                     ELSE Exit(l, IF ending = "killed" THEN 137 ELSE 1, <<>>)
  /\ UNCHANGED nonLauncher

\* timeout --signal=KILL "${TIMEOUT_SECONDS}s" pi ... || true
RunPi(ending, wj, wm) ==
  /\ launcher.pc = "run"
  /\ CanEnd(launcher, ending)
  /\ launcher' = [AfterAgent(launcher, ending, wj, wm) EXCEPT !.pc = "check"]
  /\ UNCHANGED nonLauncher

MissingOutput ==
  <<"missing expected output:", "SUBMISSION_DIR", "/", "audit.json", "or",
    "audit.md">>

\* the final test of the two artifacts; the script otherwise ends with 0
CheckOutput ==
  /\ launcher.pc = "check"
  /\ IF ~NonEmpty(launcher.auditJson) /\ ~NonEmpty(launcher.auditMd)
     THEN launcher' = Exit(launcher, 2, MissingOutput)
     ELSE launcher' = Exit(launcher, 0, <<>>)
  /\ UNCHANGED nonLauncher

LaunchInit ==
  /\ PageInit
  /\ launcher \in LauncherStarts
  /\ report = ReportIdle

LaunchNext ==
  \/ CheckRequiredEnv
  \/ MakeDirs
  \/ ValidateTimeout
  \/ RenderInstructions
  \/ CleanOutput
  \/ ConfigurePi
  \/ \E ending \in AgentEndings, wj \in AgentWrites, wm \in AgentWrites :
       RunPi(ending, wj, wm)
  \/ CheckOutput

LaunchSpec == LaunchInit /\ [][LaunchNext]_vars

\* ------------------------------------------------ the report exporter alone
nonReport == <<draft, pageVars, launcher>>

\* generateAllVulnerabilitiesMarkdown(vulnerabilities, jobId)
GenerateAll ==
  /\ report.pc = "input"
  /\ report' = [report EXCEPT
                  !.pc = "all",
                  !.lines = generateAllVulnerabilitiesMarkdown(
                              report.vulnerabilities, report.jobId)]
  /\ UNCHANGED nonReport

\* generateVulnerabilityMarkdown(vuln)
GenerateOne ==
  /\ report.pc = "input"
  /\ Len(report.vulnerabilities) = 1
  /\ report.jobId = None
  /\ report' = [report EXCEPT
                  !.pc = "one",
                  !.lines = generateVulnerabilityMarkdown(
                              report.vulnerabilities[1])]
  /\ UNCHANGED nonReport

\* the exporter is given a list of vulnerabilities and, optionally, a job id
ReportInit ==
  /\ PageInit
  /\ launcher = LauncherIdle
  /\ report \in {[ReportIdle EXCEPT !.vulnerabilities = vs, !.jobId = j] :
                   vs \in VulnLists, j \in ReportJobIds}

ReportNext ==
  \/ GenerateAll
  \/ GenerateOne

ReportSpec == ReportInit /\ [][ReportNext]_vars

\* ------------------------------------------------------------- properties
Range(s) == {s[k] : k \in 1..Len(s)}

HasJob(h, id) == \E k \in 1..Len(h) : h[k].job_id = id

\* the eligibility of a draft as section 3 of the specification states it
Eligible(d) ==
  /\ d.mode = "files" => d.files # None /\ d.files[1] # <<>>
  /\ d.mode = "github" => GITHUB_URL_PATTERN(Trim(d.githubUrl))

\* the requests that reach the network in this step
Dispatched(i) ==
  /\ i \in 1..Len(calls')
  /\ calls'[i].req # None
  /\ i > Len(calls) \/ calls[i].req = None

C2_NoPhantomEntry ==
  [][/\ \A k \in 1..Len(recentJobs') :
          recentJobs'[k] \notin Range(recentJobs) =>
            \E i \in 1..Len(calls) :
              /\ calls[i].stage = "resolved"
              /\ recentJobs'[k].job_id = calls[i].job_id
     /\ (\E i \in 1..Len(calls) : calls[i].stage = "thrown")
          => recentJobs' = recentJobs
     /\ (calls # <<>> /\ calls' = <<>> /\ Quiescent)
          => recentJobs' = recentJobs]_vars

C2_Witness ==
  /\ submitError # None
  /\ recentJobs = <<>>
  /\ calls = <<>>
  /\ draft.mode = "github"
  /\ Eligible(draft)

\* C3: the step that handles a failed call leaves every field of the draft
\* unchanged (files and URL are those the call captured), sets one non-empty
\* error message, clears the busy flag and starts no request.
C3_FailureKeepsDraft ==
  [][\A i \in 1..Len(calls) : calls[i].stage = "thrown" =>
        /\ draft' = draft
        /\ draft.files = calls[i].files
        /\ draft.githubUrl = calls[i].githubUrl
        /\ submitError' # None
        /\ submitError'[1] # <<>>
        /\ ~isSubmitting'
        /\ Len(calls') = Len(calls) - 1
        /\ \A k \in 1..Len(calls') : calls'[k] \in Range(calls)]_vars

C3_Witness ==
  /\ submitError = Some(<<"Upload failed">>)
  /\ calls = <<>>
  /\ ~isSubmitting
  /\ draft.mode = "files"
  /\ draft.files = Some(<<F1>>)

\* C4: every request that reached the network carries a non-empty file list
\* (files) or a URL that matches the grammar and is the trimmed URL of the
\* draft (github); from an idle page with an ineligible draft no step starts
\* a call or adds a history record.
C4_RequestIsEligible ==
  \A i \in 1..Len(calls) : calls[i].req # None =>
    LET r == calls[i].req[1]
    IN  /\ r.kind = "files" => r.archive # None /\ r.archive[1].files # <<>>
        /\ r.kind = "github" =>
             /\ GITHUB_URL_PATTERN(r.url)
             /\ r.url = Trim(calls[i].githubUrl)

C4_OnlyEligibleSubmits ==
  /\ []C4_RequestIsEligible
  /\ [][(calls = <<>> /\ ~Eligible(draft)) =>
          /\ calls' = <<>>
          /\ \A k \in 1..Len(recentJobs') :
               recentJobs'[k] \in Range(recentJobs)]_vars

C4_Witness ==
  \E i \in 1..Len(calls) :
    /\ calls[i].req # None
    /\ calls[i].req[1].kind = "github"
    /\ calls[i].req[1].url # calls[i].githubUrl

\* C5: a request dispatched while keyPredefined is true carries no credential.
C5_NoCredentialWhenPredefined ==
  [][\A i \in 1..Len(calls') :
        (Dispatched(i) /\ auth.keyPredefined) =>
          calls'[i].req[1].credential = None]_vars

\* C6: at most one call is outstanding, and while one is the busy flag is
\* set and the submit button is disabled.
C6_OneInFlight ==
  /\ Len(calls) <= 1
  /\ calls # <<>> => isSubmitting /\ ~canSubmit

C6_Witness ==
  /\ Len(calls) = 1
  /\ calls[1].stage = "sent"
  /\ calls[1].mode # draft.mode
  /\ Eligible(draft)
  /\ auth.isAuthorized
  /\ ~auth.isLoading

\* C7: the step that handles a confirmed job id puts one record with that
\* id first in the history, its source is the kind of the request that was
\* sent, and no other record is new.
C7_OneEntryPerSuccess ==
  [][\A i \in 1..Len(calls) : calls[i].stage = "resolved" =>
        /\ recentJobs' # <<>>
        /\ recentJobs'[1].job_id = calls[i].job_id
        /\ recentJobs'[1].source = calls[i].req[1].kind
        /\ Cardinality({k \in 1..Len(recentJobs') :
                          recentJobs'[k].job_id = calls[i].job_id}) = 1
        /\ \A k \in 2..Len(recentJobs') :
             recentJobs'[k] \in Range(recentJobs)]_vars

C7_Witness ==
  /\ calls = <<>>
  /\ recentJobs # <<>>
  /\ recentJobs[1].source = "github"
  /\ draft.fromGitHub
  /\ draft.mode = "files"

\* C8: a step of the store that changes the mode changes nothing else.
C8_SetModeFrame ==
  [][draft'.mode # draft.mode =>
        draft' = [draft EXCEPT !.mode = draft'.mode]]_vars

C8_Witness ==
  /\ draft.mode = "github"
  /\ draft.files = Some(<<F1>>)
  /\ draft.packageName # None
  /\ Trim(draft.githubUrl) # <<>>
  /\ draft.fromGitHub

\* C9 as stated: clearUpload makes every field, the mode included, equal to
\* its value in the initial draft.
C9_ClearRestoresInitial ==
  [][Store_clearUpload => draft' = InitialDraft]_vars

\* C9 amended: clearUpload makes files, label, URL and isFromRemote equal to
\* their values in the initial draft and leaves the mode as it was.
C9_ClearKeepsMode ==
  [][Store_clearUpload =>
        draft' = [InitialDraft EXCEPT !.mode = draft.mode]]_vars

C9_Witness ==
  draft = [InitialDraft EXCEPT !.mode = "github"]

\* C10: no two records of the history share a job id; the step that adds a
\* record whose job id is present keeps the length and puts the record first.
UniqueJobIds(h) ==
  \A a, b \in 1..Len(h) : h[a].job_id = h[b].job_id => a = b

C10_UniqueHistory ==
  /\ [](UniqueJobIds(recentJobs))
  /\ [][\A i \in 1..Len(calls) :
          (calls[i].stage = "resolved" /\ HasJob(recentJobs, calls[i].job_id))
            => /\ Len(recentJobs') = Len(recentJobs)
               /\ recentJobs'[1].job_id = calls[i].job_id]_vars

C10_Witness ==
  /\ Len(recentJobs) = 2
  /\ \E i \in 1..Len(calls) :
       /\ calls[i].stage = "resolved"
       /\ recentJobs[2].job_id = calls[i].job_id

\* C18: the step that handles a settled call, resolved or thrown, clears the
\* busy flag; the flag is set only while a call is outstanding; from an idle
\* page that is unauthorized or whose draft is ineligible no step sets it.
C18_BusyFlagCleared ==
  /\ [](isSubmitting => calls # <<>>)
  /\ [][(\E i \in 1..Len(calls) : Settled(calls[i])) => ~isSubmitting']_vars
  /\ [][(calls = <<>> /\ (~auth.isAuthorized \/ ~Eligible(draft)))
          => ~isSubmitting']_vars

C18_Witness ==
  /\ submitError # None
  /\ calls = <<>>
  /\ ~isSubmitting
  /\ canSubmit
  /\ Len(recentJobs) = 1

\* C20: as long as a call is outstanding the URL of the draft is the URL
\* the call captured when it was started, so it is when the call settles.
C20_UrlFrozenWhileBusy ==
  \A i \in 1..Len(calls) : draft.githubUrl = calls[i].githubUrl

C20_Witness ==
  \E i \in 1..Len(calls) :
    /\ Settled(calls[i])
    /\ calls[i].mode = "github"
    /\ draft.mode = "github"
    /\ draft.githubUrl # <<>>

\* C15: validity depends on the trimmed text only, a blank text is invalid,
\* and the indicator of the URL input agrees with the submit gate.
Blank(s) == \A k \in 1..Len(s) : s[k] \in Whitespace

C15_PaddingKeepsVerdict ==
  [][\A w \in Whitespace :
        (\/ draft'.githubUrl = <<w>> \o draft.githubUrl
         \/ draft'.githubUrl = draft.githubUrl \o <<w>>)
          => GITHUB_URL_PATTERN(Trim(draft'.githubUrl)) = isValidGitHubUrl]_vars

C15_BlankIsInvalid == Blank(draft.githubUrl) => ~isValidGitHubUrl

\* C15 as stated: the indicator and the gate agree on every non-empty text.
C15_TrimmedValidity ==
  /\ C15_PaddingKeepsVerdict
  /\ []C15_BlankIsInvalid
  /\ [](draft.githubUrl # <<>> =>
          GitHubUrlInput_isValid(draft.githubUrl) = Some(isValidGitHubUrl))

\* C15 amended: the indicator and the gate agree on every text that is not
\* blank; on a blank text, empty or not, the indicator gives no verdict.
C15_TrimmedValidityNonBlank ==
  /\ C15_PaddingKeepsVerdict
  /\ []C15_BlankIsInvalid
  /\ [](~Blank(draft.githubUrl) =>
          GitHubUrlInput_isValid(draft.githubUrl) = Some(isValidGitHubUrl))
  /\ [](Blank(draft.githubUrl) =>
          GitHubUrlInput_isValid(draft.githubUrl) = None)

C15_Witness ==
  /\ Len(draft.githubUrl) > 2
  /\ draft.githubUrl[1] = "\n"
  /\ draft.githubUrl[Len(draft.githubUrl)] = "\n"
  /\ isValidGitHubUrl
  /\ GitHubUrlInput_isValid(draft.githubUrl) = Some(TRUE)

\* ---------------------------------------------------- launcher properties
Exited(code) == launcher.pc = "exited" /\ launcher.status = Some(code)

\* nothing but the required-variable checks has run
NothingDone ==
  /\ ~launcher.dirs
  /\ ~launcher.agentsMd
  /\ ~launcher.modelsJson
  /\ launcher.agent = "notrun"
  /\ launcher.auditJson = launcher.prior.auditJson
  /\ launcher.auditMd = launcher.prior.auditMd

\* C17: when one of AGENT_DIR, SUBMISSION_DIR, LOGS_DIR, the credential, the
\* model, the base URL or the instructions path is unset or empty, the
\* launcher does nothing but exit with a non-zero status: no directory is
\* created, no artifact deleted and the agent is not started.
C17_MissingEnvStopsFirst ==
  (\E v \in {"AGENT_DIR", "SUBMISSION_DIR", "LOGS_DIR", "PI_API_KEY",
             "PI_MODEL", "PI_BASE_URL", "EVM_BENCH_DETECT_MD"} :
      launcher.env[v] \in {"unset", "empty"})
    => /\ launcher.pc \in {"env", "exited"}
       /\ NothingDone
       /\ launcher.pc = "exited" =>
            launcher.status # None /\ launcher.status # Some(0)

C17_Witness ==
  /\ launcher.env["PI_MODEL"] = "empty"
  /\ launcher.prior.auditJson = "stale"
  /\ launcher.auditJson = "stale"
  /\ Exited(1)
  /\ "PI_MODEL" \in Range(launcher.stderr)

\* text that is a non-negative integer in decimal digits
NonNegativeInteger(t) == t # <<>> /\ \A k \in 1..Len(t) : t[k] \in Digits

\* the launcher has not gone past the validation of the timeout
StoppedAtTimeout ==
  /\ launcher.pc \in {"env", "mkdir", "timeout", "exited"}
  /\ ~launcher.agentsMd
  /\ ~launcher.modelsJson
  /\ launcher.agent = "notrun"
  /\ launcher.auditJson = launcher.prior.auditJson
  /\ launcher.auditMd = launcher.prior.auditMd
  /\ (launcher.pc = "exited" /\ launcher.dirs) => launcher.status = Some(2)

C12_UnsetMeansDefault ==
  (launcher.timeoutVar = None /\ launcher.timeoutSeconds # <<>>)
    => /\ NonNegativeInteger(launcher.timeoutSeconds)
       /\ DigitsValue(launcher.timeoutSeconds) = 10800

\* C12 as stated: a timeout variable set to anything that is not a
\* non-negative integer makes the launcher exit 2 before the agent is started
\* and before an artifact or the instruction file is removed or written; an
\* unset variable means 10800 seconds.
C12_InvalidTimeoutStopsEarly ==
  /\ (launcher.timeoutVar # None
      /\ ~NonNegativeInteger(launcher.timeoutVar[1])) => StoppedAtTimeout
  /\ C12_UnsetMeansDefault

\* C12 amended: a timeout variable set to a non-empty text that is not a
\* non-negative integer makes the launcher exit 2 before the agent is started
\* and before an artifact or the instruction file is removed or written; an
\* unset or empty variable means 10800 seconds.
C12_InvalidNonEmptyTimeoutStopsEarly ==
  /\ (launcher.timeoutVar # None
      /\ launcher.timeoutVar[1] # <<>>
      /\ ~NonNegativeInteger(launcher.timeoutVar[1])) => StoppedAtTimeout
  /\ C12_UnsetMeansDefault
  /\ (launcher.timeoutVar = Some(<<>>) /\ launcher.timeoutSeconds # <<>>)
       => DigitsValue(launcher.timeoutSeconds) = 10800

C12_Witness ==
  /\ launcher.timeoutVar = Some(<<"-", "5">>)
  /\ launcher.prior.auditMd = "stale"
  /\ launcher.auditMd = "stale"
  /\ launcher.dirs
  /\ ~launcher.agentsMd
  /\ Exited(2)

\* C11: once the agent has been started the exit status is 2, with a
\* diagnostic naming audit.json and audit.md, exactly when neither artifact
\* is non-empty, and 0 otherwise, however the agent ended.
C11_StatusFromArtifacts ==
  (launcher.agent # "notrun" /\ launcher.pc = "exited")
    => IF ~NonEmpty(launcher.auditJson) /\ ~NonEmpty(launcher.auditMd)
       THEN /\ launcher.status = Some(2)
            /\ {"audit.json", "audit.md"} \subseteq Range(launcher.stderr)
       ELSE launcher.status = Some(0)

C11_Witness ==
  /\ launcher.agent = "killed"
  /\ launcher.auditJson = "empty"
  /\ NonEmpty(launcher.auditMd)
  /\ Exited(0)

\* C19: the agent is started with both artifacts absent, so exit status 0
\* means an artifact was written non-empty during this run, and a run whose
\* agent left no non-empty artifact never exits 0.
C19_ZeroMeansFreshOutput ==
  /\ launcher.pc = "run" =>
       launcher.auditJson = "missing" /\ launcher.auditMd = "missing"
  /\ Exited(0) =>
       launcher.auditJson = "fresh" \/ launcher.auditMd = "fresh"
  /\ (launcher.pc = "exited" /\ launcher.agent # "notrun"
      /\ launcher.auditJson # "fresh" /\ launcher.auditMd # "fresh")
       => launcher.status # Some(0)

C19_Witness ==
  /\ launcher.prior.auditJson = "stale"
  /\ launcher.agent = "clean"
  /\ launcher.auditJson = "missing"
  /\ launcher.auditMd = "missing"
  /\ Exited(2)

\* ------------------------------------------------------ report properties
FirstToken(l, t) == l # <<>> /\ l[1] = t
IsHeading(l) == FirstToken(l, "## ")
IsTotalLine(l) == FirstToken(l, "**Total Vulnerabilities:** ")
IsSeverityLine(l) == FirstToken(l, "**Severity:** ")
IsFileLine(l) == FirstToken(l, "**File:** ~")
IsHistogramLine(l) == FirstToken(l, "- **")
IsRule(l) == l = <<"---">>

\* the line of the i-th heading of the report and the lines of its section
HeadingAt(i) ==
  CHOOSE k \in 1..Len(report.lines) :
    /\ IsHeading(report.lines[k])
    /\ Cardinality({j \in 1..k : IsHeading(report.lines[j])}) = i

SectionOf(i) ==
  SubSeq(report.lines, HeadingAt(i),
         IF i < Len(SelectSeq(report.lines, IsHeading))
         THEN HeadingAt(i + 1) - 1 ELSE Len(report.lines))

ExpectedFileLines(description) ==
  [k \in 1..Len(description) |->
     <<"**File:** ~", description[k].file, "~ (lines ",
       ToString(description[k].line_start), "-",
       ToString(description[k].line_end), ")">>]

\* C13: the aggregate report states the length of the list as its total and
\* has exactly one section per vulnerability, in input order, each with the
\* heading "## id: title", the severity in upper case and one File line per
\* location; for the empty list the total is 0 and there is no section.
C13_OneSectionPerVulnerability ==
  report.pc = "all" =>
    LET vs == report.vulnerabilities
        headings == SelectSeq(report.lines, IsHeading)
    IN  /\ SelectSeq(report.lines, IsTotalLine) =
             <<<<"**Total Vulnerabilities:** ", ToString(Len(vs))>>>>
        /\ Len(headings) = Len(vs)
        /\ \A i \in 1..Len(vs) :
             /\ headings[i] = <<"## ", vs[i].id, ": ", vs[i].title>>
             /\ SelectSeq(SectionOf(i), IsSeverityLine) =
                  <<<<"**Severity:** ">> \o toUpperCase(vs[i].severity)>>
             /\ SelectSeq(SectionOf(i), IsFileLine) =
                  ExpectedFileLines(vs[i].description)
        /\ vs = <<>> =>
             /\ <<"**Total Vulnerabilities:** ", "0">> \in Range(report.lines)
             /\ headings = <<>>

C13_Witness ==
  /\ report.pc = "all"
  /\ Len(report.vulnerabilities) = 2
  /\ report.vulnerabilities[1].id = "V2"
  /\ report.vulnerabilities[2].id = "V1"
  /\ Len(report.vulnerabilities[1].description) = 2
  /\ <<"**Severity:** ", "H", "I", "G", "H">> \in Range(report.lines)
  /\ <<"**Total Vulnerabilities:** ", "2">> \in Range(report.lines)

\* the histogram: the list lines before the first rule of the report
FirstRule == CHOOSE k \in 1..Len(report.lines) :
               IsRule(report.lines[k])
               /\ \A j \in 1..(k - 1) : ~IsRule(report.lines[j])

Histogram ==
  SelectSeq(SubSeq(report.lines, 1, FirstRule), IsHistogramLine)

\* the label and the count that a histogram line shows
LabelOf(l) == SubSeq(l, 2, Len(l) - 2)
CountOf(l) ==
  CHOOSE n \in 0..Len(report.vulnerabilities) : ToString(n) = l[Len(l)]

RECURSIVE SumCounts(_)
SumCounts(ls) ==
  IF ls = <<>> THEN 0 ELSE CountOf(Head(ls)) + SumCounts(Tail(ls))

IsFirstAppearance(i) ==
  \A j \in 1..(i - 1) :
    report.vulnerabilities[j].severity # report.vulnerabilities[i].severity

FirstAppearances ==
  SelectSeq([i \in 1..Len(report.vulnerabilities) |-> i], IsFirstAppearance)

\* C14: the histogram has one line per distinct severity value of the list,
\* in the order of first appearance, each showing the number of
\* vulnerabilities with that severity, and the counts sum to the total.
C14_HistogramByFirstAppearance ==
  report.pc = "all" =>
    LET vs == report.vulnerabilities
    IN  /\ Len(Histogram) = Cardinality({vs[i].severity : i \in 1..Len(vs)})
        /\ Len(Histogram) = Len(FirstAppearances)
        /\ \A k \in 1..Len(Histogram) :
             LET sev == vs[FirstAppearances[k]].severity
             IN  Histogram[k] =
                   <<"- **">> \o toUpperCase(sev) \o
                   <<":** ",
                     ToString(Cardinality({i \in 1..Len(vs) :
                                             vs[i].severity = sev}))>>
        /\ SumCounts(Histogram) = Len(vs)

C14_Witness ==
  /\ report.pc = "all"
  /\ Len(report.vulnerabilities) = 2
  /\ report.vulnerabilities[1].severity = <<"l", "o", "w">>
  /\ report.vulnerabilities[2].severity = <<"h", "i", "g", "h">>
  /\ Histogram = <<<<"- **", "L", "O", "W", ":** ", "1">>,
                   <<"- **", "H", "I", "G", "H", ":** ", "1">>>>

\* C16: severities that differ only in letter case are counted together, so
\* no label appears on two histogram lines and each line counts every
\* vulnerability whose severity, in upper case, is its label.
C16_CaseInsensitiveHistogram ==
  report.pc = "all" =>
    /\ \A a, b \in 1..Len(Histogram) :
         a # b => LabelOf(Histogram[a]) # LabelOf(Histogram[b])
    /\ \A k \in 1..Len(Histogram) :
         CountOf(Histogram[k]) =
           Cardinality({i \in 1..Len(report.vulnerabilities) :
                          toUpperCase(report.vulnerabilities[i].severity)
                            = LabelOf(Histogram[k])})

====
